---- MODULE Spec2Model ----
(***************************************************************************)
(* Model of fetch_prices.py: the quote parser (parse_quotes) and the       *)
(* retrieval orchestrator (main) of the JSE daily quote sheet feed.        *)
(*                                                                         *)
(* Text is modelled as TLA+ strings, a token is a string without white     *)
(* space, a line is a sequence of tokens (re.split(r"\s+", line.strip()))  *)
(* and the text of a sheet is a sequence of lines (full_text.splitlines()  *)
(* of the pages joined by "\n").  An optional value (Optional[float], a    *)
(* missing dict entry) is <<>> when absent and <<v>> when present.  A      *)
(* price is an integer number of hundredths (10.50 is 1050).               *)
(***************************************************************************)
EXTENDS Integers, Sequences, FiniteSets, TLC

VARIABLES
    \* ---- main(): inputs of the run
    watchlist_file,   \* the lines of WATCHLIST_FILE, <<>> when the file is missing
    env_markets,      \* JSE_MARKETS split on ","
    env_lookback,     \* int(JSE_LOOKBACK_DAYS)
    \* ---- main(): locals
    pc,               \* position in main
    symbols,          \* read_watchlist(...): sorted list of symbols
    market_ids,       \* market ids in priority order
    dates,            \* latest_trading_date_iso(lookback)
    di,               \* index in dates of the date being tried
    mi,               \* index in market_ids of the next market to try
    combined,         \* per-date combined mapping
    got_any,
    best_quotes,
    used_date,
    used_as_at,
    errors,
    rows,             \* the records written to prices.csv
    status,           \* exit status of main, <<>> while running
    \* ---- history of the run (not program state)
    attempts,         \* the attempts so far, in order: <<date, market index, outcome>>,
                      \* outcome "raised", "empty" (no quote parsed) or "quotes"
    lastRes,          \* what parse_quotes returned to the last successful attempt
    refCombined,      \* combined mapping of an orchestrator that parses each sheet
                      \* against the symbols still unresolved
    fullCombined,     \* combined mapping of an orchestrator that parses each sheet
                      \* against the whole watchlist and keeps the first quote
    normCombined,     \* combined mapping of an orchestrator whose watchlist holds
                      \* the normalized forms of the symbols
    dateLabels,       \* the sheet-date labels parse_quotes returned for the sheets
                      \* of the date being tried
    \* ---- parse_quotes(): the loop over the lines of one document
    p_pc,
    p_want,
    p_as_at,
    p_out,
    p_line,           \* the line handled by the last iteration
    p_n               \* number of lines read

mainVars == <<watchlist_file, env_markets, env_lookback, pc, symbols, market_ids,
              dates, di, mi, combined, got_any, best_quotes, used_date,
              used_as_at, errors, rows, status, attempts, lastRes, refCombined,
              fullCombined, normCombined, dateLabels>>
parseVars == <<p_pc, p_want, p_as_at, p_out, p_line, p_n>>
vars == <<mainVars, parseVars>>

(***************************************************************************)
(* Bounds of the model.                                                    *)
(***************************************************************************)
MaxLookback == 3    \* JSE_LOOKBACK_DAYS is drawn from -1 .. MaxLookback
MaxLines == 2       \* a sheet has at most MaxLines lines
MaxToks == 3        \* a line of the parser's loop has at most MaxToks tokens

(***************************************************************************)
(* Strings.                                                                *)
(***************************************************************************)
Chars(s) == [i \in 1..Len(s) |-> SubSeq(s, i, i)]

Range(f) == {f[i] : i \in DOMAIN f}

Digits == {"0", "1", "2", "3", "4", "5", "6", "7", "8", "9"}

\* The characters of the model in code point order (Python compares str by code point).
CharOrder == Chars(" #+,-./0123456789;ABCDEFGHIJKLMNOPQRSTUVWXYZabcdefghijklmnopqrstuvwxyz")

Ord(c) == CHOOSE i \in 1..Len(CharOrder) : CharOrder[i] = c

LowerCase == Chars("abcdefghijklmnopqrstuvwxyz")
UpperCase == Chars("ABCDEFGHIJKLMNOPQRSTUVWXYZ")

UpperChar(c) ==
    IF \E i \in 1..Len(LowerCase) : LowerCase[i] = c
    THEN UpperCase[CHOOSE i \in 1..Len(LowerCase) : LowerCase[i] = c]
    ELSE c

\* str.upper()
RECURSIVE Upper(_)
Upper(s) ==
    IF Len(s) = 0 THEN ""
    ELSE UpperChar(SubSeq(s, 1, 1)) \o Upper(SubSeq(s, 2, Len(s)))

\* str.rstrip(cs)
RECURSIVE RStrip(_, _)
RStrip(s, cs) ==
    IF Len(s) > 0 /\ SubSeq(s, Len(s), Len(s)) \in cs
    THEN RStrip(SubSeq(s, 1, Len(s) - 1), cs)
    ELSE s

\* str.lstrip(cs)
RECURSIVE LStrip(_, _)
LStrip(s, cs) ==
    IF Len(s) > 0 /\ SubSeq(s, 1, 1) \in cs
    THEN LStrip(SubSeq(s, 2, Len(s)), cs)
    ELSE s

\* str.strip()
Strip(s) == LStrip(RStrip(s, {" "}), {" "})

\* a < b for str
RECURSIVE StrLess(_, _)
StrLess(a, b) ==
    IF Len(b) = 0 THEN FALSE
    ELSE IF Len(a) = 0 THEN TRUE
    ELSE IF SubSeq(a, 1, 1) = SubSeq(b, 1, 1)
         THEN StrLess(SubSeq(a, 2, Len(a)), SubSeq(b, 2, Len(b)))
         ELSE Ord(SubSeq(a, 1, 1)) < Ord(SubSeq(b, 1, 1))

\* sorted(S) for a set of str
RECURSIVE Sorted(_)
Sorted(S) ==
    IF S = {} THEN <<>>
    ELSE LET m == CHOOSE x \in S : \A y \in S : y = x \/ StrLess(x, y)
         IN  <<m>> \o Sorted(S \ {m})

\* the value of a run of decimal digits
RECURSIVE DigitsValue(_)
DigitsValue(s) ==
    IF Len(s) = 0 THEN 0
    ELSE 10 * DigitsValue(SubSeq(s, 1, Len(s) - 1))
         + (Ord(SubSeq(s, Len(s), Len(s))) - Ord("0"))

AllIn(s, cs) == \A i \in 1..Len(s) : SubSeq(s, i, i) \in cs

(***************************************************************************)
(* Quote extraction: norm_sym, NUM_RE, parse_sheet_date, parse_quotes.     *)
(***************************************************************************)
SOURCE_TAG == "JSE_DAILY_PDF"

Quote(sym, price, as_at) ==
    [symbol |-> sym, last_price |-> price, as_at |-> as_at, source |-> SOURCE_TAG]

EmptyMap == [k \in {} |-> {}]

\* d[k] = v for a dict d
MapSet(d, k, v) == [x \in (DOMAIN d) \cup {k} |-> IF x = k THEN v ELSE d[x]]

\* tok.strip().upper().rstrip(".,;")
norm_sym(tok) == RStrip(Upper(Strip(tok)), {".", ",", ";"})

\* NUM_RE.match(t): ^[+-]?\d[\d,]*\.?\d*$
NUM_RE(t) ==
    LET body == IF Len(t) > 0 /\ SubSeq(t, 1, 1) \in {"+", "-"}
                THEN SubSeq(t, 2, Len(t)) ELSE t
        rest == SubSeq(body, 2, Len(body))
    IN  /\ Len(body) >= 1
        /\ SubSeq(body, 1, 1) \in Digits
        /\ \E k \in 0..Len(rest) :
              /\ AllIn(SubSeq(rest, 1, k), Digits \cup {","})
              /\ \/ k = Len(rest)
                 \/ /\ SubSeq(rest, k + 1, k + 1) = "."
                    /\ AllIn(SubSeq(rest, k + 2, Len(rest)), Digits)

\* s.replace(",", "")
RECURSIVE DropCommas(_)
DropCommas(s) ==
    IF Len(s) = 0 THEN ""
    ELSE (IF SubSeq(s, 1, 1) = "," THEN "" ELSE SubSeq(s, 1, 1))
         \o DropCommas(SubSeq(s, 2, Len(s)))

\* float(s) in hundredths, <<>> for ValueError.  Digits after the second
\* decimal place are dropped; the sheets of the model have at most two.
ToFloat(s) ==
    LET neg  == Len(s) > 0 /\ SubSeq(s, 1, 1) = "-"
        body == IF Len(s) > 0 /\ SubSeq(s, 1, 1) \in {"+", "-"}
                THEN SubSeq(s, 2, Len(s)) ELSE s
        dots == {i \in 1..Len(body) : SubSeq(body, i, i) = "."}
        dot  == IF dots = {} THEN Len(body) + 1 ELSE CHOOSE i \in dots : TRUE
        ip   == SubSeq(body, 1, dot - 1)
        fp   == SubSeq(body, dot + 1, Len(body))
        fp2  == SubSeq(fp \o "00", 1, 2)
        mag  == 100 * DigitsValue(ip) + DigitsValue(fp2)
    IN  IF /\ Cardinality(dots) <= 1
           /\ Len(ip) + Len(fp) >= 1
           /\ AllIn(ip, Digits)
           /\ AllIn(fp, Digits)
        THEN <<IF neg THEN 0 - mag ELSE mag>>
        ELSE <<>>

\* f(i) of parse_quotes over the collected numeric tokens (i counts from 0)
NumField(nums, i) ==
    IF i >= Len(nums) THEN <<>> ELSE ToFloat(DropCommas(nums[i + 1]))

\* the numeric tokens after the anchor, in order
NumsAfter(toks, idx0) == SelectSeq(SubSeq(toks, idx0 + 1, Len(toks)), NUM_RE)

\* LinePrice with "close or last_traded": a closing price of zero counts as absent
LinePriceTruthy(toks, idx0) ==
    LET nums        == NumsAfter(toks, idx0)
        last_traded == NumField(nums, 0)
        close       == NumField(nums, 1)
    IN  IF close # <<>> /\ close # <<0>> THEN close ELSE last_traded

\* price of an anchored line
LinePrice(toks, idx0) ==
    LET nums        == NumsAfter(toks, idx0)
        last_traded == NumField(nums, 0)
        close       == NumField(nums, 1)
    IN  IF close # <<>> THEN close ELSE last_traded

\* Anchor without "or sym0 in out": a first token in want is always the anchor
AnchorAgain(toks, want, out) ==
    LET sym0 == norm_sym(toks[1])
        later == {i \in 2..Len(toks) :
                     norm_sym(toks[i]) \in want /\ norm_sym(toks[i]) \notin DOMAIN out}
    IN  IF sym0 \in want THEN 1
        ELSE IF later = {} THEN 0
        ELSE CHOOSE i \in later : \A j \in later : i <= j

\* Anchor without the break of the scan: the last matching token is the anchor
AnchorLast(toks, want, out) ==
    LET sym0 == norm_sym(toks[1])
        later == {i \in 2..Len(toks) :
                     norm_sym(toks[i]) \in want /\ norm_sym(toks[i]) \notin DOMAIN out}
    IN  IF sym0 \in want /\ sym0 \notin DOMAIN out THEN 1
        ELSE IF later = {} THEN 0
        ELSE CHOOSE i \in later : \A j \in later : i >= j

\* Anchor with "out[sym].last_price is None" counted as not yet resolved
AnchorRetriesUnpriced(toks, want, out) ==
    LET open(x) == x \in want /\ (x \in DOMAIN out => out[x].last_price = <<>>)
        later == {i \in 2..Len(toks) : open(norm_sym(toks[i]))}
    IN  IF open(norm_sym(toks[1])) THEN 1
        ELSE IF later = {} THEN 0
        ELSE CHOOSE i \in later : \A j \in later : i <= j

\* position (from 1) of the line's anchor, 0 when the line has none
Anchor(toks, want, out) ==
    LET sym0 == norm_sym(toks[1])
        later == {i \in 2..Len(toks) :
                     norm_sym(toks[i]) \in want /\ norm_sym(toks[i]) \notin DOMAIN out}
    IN  IF sym0 \in want /\ sym0 \notin DOMAIN out THEN 1
        ELSE IF later = {} THEN 0
        ELSE CHOOSE i \in later : \A j \in later : i <= j

\* one iteration of the loop over the lines: the mapping after the line
ParseLine(out, toks, want, as_at) ==
    IF Len(toks) = 0 THEN out
    ELSE LET idx0 == Anchor(toks, want, out)
         IN  IF idx0 = 0 THEN out
             ELSE LET sym0 == norm_sym(toks[idx0])
                  IN  MapSet(out, sym0, Quote(sym0, LinePrice(toks, idx0), as_at))

\* LineBreaks with "if out: break": the loop ends with the first quote
LineBreaksEarly(out, toks, want) ==
    /\ Len(toks) > 0
    /\ Anchor(toks, want, out) # 0

\* whether the iteration over the line ends the loop (the break)
LineBreaks(out, toks, want) ==
    /\ Len(toks) > 0
    /\ Anchor(toks, want, out) # 0
    /\ Cardinality((DOMAIN out) \cup {norm_sym(toks[Anchor(toks, want, out)])})
         = Cardinality(want)

MONTHS == {"January", "February", "March", "April", "May", "June", "July",
           "August", "September", "October", "November", "December"}

\* the tokens of the whole text, in order
RECURSIVE Flatten(_)
Flatten(lines) ==
    IF lines = <<>> THEN <<>> ELSE Head(lines) \o Flatten(Tail(lines))

\* MONTH_DATE_RE.search(text): the first "<Month> <d or dd>, <yyyy>".  The
\* model matches whole tokens (the regular expression also matches a month
\* name that ends a longer token); the white space matched is one blank.
parse_sheet_date(lines) ==
    LET toks == Flatten(lines)
        hits == {i \in 1..(Len(toks) - 2) :
                    /\ toks[i] \in MONTHS
                    /\ Len(toks[i + 1]) \in {2, 3}
                    /\ AllIn(SubSeq(toks[i + 1], 1, Len(toks[i + 1]) - 1), Digits)
                    /\ SubSeq(toks[i + 1], Len(toks[i + 1]), Len(toks[i + 1])) = ","
                    /\ Len(toks[i + 2]) >= 4
                    /\ AllIn(SubSeq(toks[i + 2], 1, 4), Digits)
                    /\ \/ Len(toks[i + 2]) = 4
                       \/ SubSeq(toks[i + 2], 5, 5) \in {".", ",", ";", "-", "+", "/", "#"}}
    IN  IF hits = {} THEN ""
        ELSE LET i == CHOOSE h \in hits : \A j \in hits : h <= j
             IN  toks[i] \o " " \o toks[i + 1] \o " " \o SubSeq(toks[i + 2], 1, 4)

\* the loop over the lines from line i on
RECURSIVE ParseLoop(_, _, _, _, _)
ParseLoop(lines, i, out, want, as_at) ==
    IF i > Len(lines) THEN out
    ELSE IF LineBreaks(out, lines[i], want)
         THEN ParseLine(out, lines[i], want, as_at)
         ELSE ParseLoop(lines, i + 1, ParseLine(out, lines[i], want, as_at), want, as_at)

\* parse_quotes(pdf_bytes, symbols) on the text of the document: (out, as_at)
parse_quotes(lines, syms) ==
    LET want  == Range(syms)
        as_at == parse_sheet_date(lines)
    IN  <<ParseLoop(lines, 1, EmptyMap, want, as_at), as_at>>

(***************************************************************************)
(* Inputs of a run of main.                                                *)
(***************************************************************************)
\* contents of the watchlist file, line by line (<<>>: missing or empty file)
WatchlistFiles ==
    { <<>>,
      <<"# watch", "">>,
      <<" aaa ">>,
      <<"BBB", "AAA", "aaa">>,
      <<"bbb.", "BBB">> }

\* JSE_MARKETS split on ","
MarketEnvs ==
    { <<"33", "31">>,
      <<"x", "">>,
      <<"31", " 31">> }

\* today, today - 1 day, ... in the Jamaican calendar, as isoformat() prints them
Calendar ==
    <<"2026-11-01", "2026-10-31", "2026-10-30", "2026-10-29", "2026-10-28", "2026-10-27">>

\* lines found on the quote sheets
SheetLines ==
    { <<"AAA", "10.25", "10.50", "+0.25">>,
      <<"AAA", "BBB", "7.5">>,
      <<"bbb.", "n/a">>,
      <<"BBB", "3.00", "0", "June", "12,", "2025">>,
      <<"March", "4,", "2024">> }

\* text of a sheet: at most MaxLines lines
Sheets == UNION {[1..n -> SheetLines] : n \in 0..MaxLines}

\* read_watchlist(path) on the lines of the file
read_watchlist(file) ==
    LET kept == {i \in 1..Len(file) :
                    /\ Strip(file[i]) # ""
                    /\ SubSeq(Strip(file[i]), 1, 1) # "#"}
    IN  Sorted({Upper(Strip(file[i])) : i \in kept})

\* the symbols a watchlist of the model can hold
SymbolUniverse ==
    UNION {Range(read_watchlist(f)) \cup {norm_sym(x) : x \in Range(read_watchlist(f))} :
              f \in WatchlistFiles}

\* A fetched sheet as main sees it: what parse_quotes returns on its text for
\* each set of symbols it can be handed.  Computed once for every sheet.
SheetParses(text) ==
    [want \in SUBSET SymbolUniverse |-> parse_quotes(text, Sorted(want))]

FetchedSheets == {SheetParses(text) : text \in Sheets}

\* parse_quotes(pdf_bytes, syms) for a fetched sheet
ParsedSheet(sheet, syms) == sheet[Range(syms)]

(***************************************************************************)
(* main and its helpers.                                                   *)
(***************************************************************************)
\* int(part): <<n>>, or <<>> for ValueError
IntOf(part) ==
    LET body == IF Len(part) > 0 /\ SubSeq(part, 1, 1) \in {"+", "-"}
                THEN SubSeq(part, 2, Len(part)) ELSE part
    IN  IF Len(body) > 0 /\ AllIn(body, Digits)
        THEN <<IF SubSeq(part, 1, 1) = "-" THEN 0 - DigitsValue(body) ELSE DigitsValue(body)>>
        ELSE <<>>

DefaultMarket == 31

\* the market ids of main, from the parts of JSE_MARKETS
RECURSIVE MarketList(_)
MarketList(parts) ==
    IF parts = <<>> THEN <<>>
    ELSE LET part == Strip(Head(parts))
         IN  (IF part = "" THEN <<>> ELSE IntOf(part)) \o MarketList(Tail(parts))

MarketIds(parts) ==
    IF MarketList(parts) = <<>> THEN <<DefaultMarket>> ELSE MarketList(parts)

\* latest_trading_date_iso with range(0, lookback_days + 1)
latest_trading_date_isoInclusive(lookback_days) ==
    [d \in 1..(lookback_days + 1) |-> Calendar[d]]

\* latest_trading_date_iso(lookback_days)
latest_trading_date_iso(lookback_days) ==
    [d \in 1..lookback_days |-> Calendar[d]]

\* the failure record appended to errors
ErrorRecord(date_iso, mid) == [date |-> date_iso, market |-> mid]

\* Merge without the "if k not in combined" guard: the later market overwrites
MergeOverwrites(comb, parsed) ==
    [k \in (DOMAIN comb) \cup (DOMAIN parsed) |->
        IF k \in DOMAIN parsed THEN parsed[k] ELSE comb[k]]

\* Merge with the guard inverted, "if k in combined": no new symbol is entered
MergeInverted(comb, parsed) ==
    [k \in DOMAIN comb |-> IF k \in DOMAIN parsed THEN parsed[k] ELSE comb[k]]

\* for k, v in parsed.items(): if k not in combined: combined[k] = v
Merge(comb, parsed) ==
    [k \in (DOMAIN comb) \cup (DOMAIN parsed) |->
        IF k \in DOMAIN comb THEN comb[k] ELSE parsed[k]]

\* the symbols of syms without a quote in comb
Unresolved(syms, comb) == SelectSeq(syms, LAMBDA x : x \notin DOMAIN comb)

\* Wanted when only the symbols still unresolved are handed to the parser
WantedUnresolved(syms, comb) == Unresolved(syms, comb)

\* the symbols handed to parse_quotes
Wanted(syms, comb) == syms

\* NoSymbols when the emptiness test is dropped
NoSymbolsNever(syms) == FALSE

\* if not symbols
NoSymbols(syms) == syms = <<>>

\* RememberLabel with "if as_at" outside "if parsed"
RememberLabelAlways(parsed, as_at, prev) ==
    IF as_at # "" THEN as_at ELSE prev

\* RememberLabel when a label once remembered is kept
RememberLabelFirst(parsed, as_at, prev) ==
    IF prev # "" THEN prev
    ELSE IF parsed # EmptyMap /\ as_at # "" THEN as_at ELSE prev

\* if parsed: ... if as_at: used_as_at = as_at
RememberLabel(parsed, as_at, prev) ==
    IF parsed # EmptyMap /\ as_at # "" THEN as_at ELSE prev

\* the watchlist of normalized symbols: the normalized forms of syms, sorted
NormWatchlist(syms) == Sorted({norm_sym(x) : x \in Range(syms)})

\* a reference merge: the quotes of comb, and those of parsed for new symbols
FirstWins(comb, parsed) ==
    [k \in (DOMAIN comb) \cup (DOMAIN parsed) |->
        IF k \in DOMAIN comb THEN comb[k] ELSE parsed[k]]

\* Covered when the early break on full coverage is missing
CoveredNever(comb, syms) == FALSE

\* len(combined) == len(symbols)
Covered(comb, syms) == Cardinality(DOMAIN comb) = Len(syms)

\* Adopts when only a fully resolved date is adopted
AdoptsNever(any, comb) == FALSE

\* got_any and combined, the test that adopts a partly resolved date
Adopts(any, comb) == any /\ comb # EmptyMap

\* Row with "if q and q.last_price": a price of zero is written as empty
RowZeroEmpty(sym, best, as_at_fallback, date_fallback) ==
    LET has == sym \in DOMAIN best
    IN  [symbol     |-> sym,
         last_price |-> IF has /\ best[sym].last_price \notin {<<>>, <<0>>}
                        THEN best[sym].last_price ELSE <<>>,
         as_at      |-> IF has /\ best[sym].as_at # "" THEN best[sym].as_at
                        ELSE IF as_at_fallback # "" THEN as_at_fallback
                        ELSE date_fallback,
         source     |-> SOURCE_TAG]

\* Row with "used_date or used_as_at": the date tried comes before the label
RowDateFirst(sym, best, as_at_fallback, date_fallback) ==
    LET has == sym \in DOMAIN best
    IN  [symbol     |-> sym,
         last_price |-> IF has /\ best[sym].last_price # <<>>
                        THEN best[sym].last_price ELSE <<>>,
         as_at      |-> IF has /\ best[sym].as_at # "" THEN best[sym].as_at
                        ELSE IF date_fallback # "" THEN date_fallback
                        ELSE as_at_fallback,
         source     |-> SOURCE_TAG]

\* one record of prices.csv
Row(sym, best, as_at_fallback, date_fallback) ==
    LET has == sym \in DOMAIN best
    IN  [symbol     |-> sym,
         last_price |-> IF has /\ best[sym].last_price # <<>>
                        THEN best[sym].last_price ELSE <<>>,
         as_at      |-> IF has /\ best[sym].as_at # "" THEN best[sym].as_at
                        ELSE IF as_at_fallback # "" THEN as_at_fallback
                        ELSE date_fallback,
         source     |-> SOURCE_TAG]

ParseIdle ==
    /\ p_pc = "idle"
    /\ p_want = {}
    /\ p_as_at = ""
    /\ p_out = EmptyMap
    /\ p_line = <<>>
    /\ p_n = 0

Init ==
    /\ watchlist_file \in WatchlistFiles
    /\ env_markets \in MarketEnvs
    /\ env_lookback \in (0 - 1)..MaxLookback
    /\ pc = "start"
    /\ symbols = <<>>
    /\ market_ids = <<>>
    /\ dates = <<>>
    /\ di = 0
    /\ mi = 0
    /\ combined = EmptyMap
    /\ got_any = FALSE
    /\ best_quotes = EmptyMap
    /\ used_date = ""
    /\ used_as_at = ""
    /\ errors = <<>>
    /\ rows = <<>>
    /\ status = <<>>
    /\ attempts = <<>>
    /\ lastRes = <<EmptyMap, "">>
    /\ refCombined = EmptyMap
    /\ fullCombined = EmptyMap
    /\ normCombined = EmptyMap
    /\ dateLabels = {}
    /\ ParseIdle

\* main, lines 187-214: the watchlist, the configuration, the locals, and the
\* entry of the loop over the dates
Start ==
    /\ pc = "start"
    /\ symbols' = read_watchlist(watchlist_file)
    /\ IF NoSymbols(symbols')
       THEN /\ status' = <<2>>
            /\ pc' = "exit"
            /\ UNCHANGED <<market_ids, dates, di, mi>>
       ELSE /\ status' = status
            /\ market_ids' = MarketIds(env_markets)
            /\ dates' = latest_trading_date_iso(env_lookback)
            /\ IF dates' = <<>>
               THEN pc' = "output" /\ UNCHANGED <<di, mi>>
               ELSE pc' = "market" /\ di' = 1 /\ mi' = 1
    /\ errors' = <<>>
    /\ best_quotes' = EmptyMap
    /\ used_date' = ""
    /\ used_as_at' = ""
    /\ combined' = EmptyMap
    /\ got_any' = FALSE
    /\ UNCHANGED <<watchlist_file, env_markets, env_lookback, rows, attempts,
                   lastRes, refCombined, fullCombined, normCombined, dateLabels,
                   parseVars>>

\* NextMarket when an iteration that does not break ends the loop over the markets
NextMarketStops == mi' = mi /\ pc' = "enddate"

\* the for loop over market_ids moves on after an iteration without break
NextMarket ==
    IF mi < Len(market_ids)
    THEN mi' = mi + 1 /\ pc' = "market"
    ELSE mi' = mi /\ pc' = "enddate"

\* main, lines 216-219 and 231-232: fetch_pdf or parse_quotes raises
AttemptFails ==
    /\ pc = "market"
    /\ errors' = Append(errors, ErrorRecord(dates[di], market_ids[mi]))
    /\ NextMarket
    /\ attempts' = Append(attempts, <<dates[di], mi, "raised">>)
    /\ UNCHANGED <<watchlist_file, env_markets, env_lookback, symbols, market_ids,
                   dates, di, combined, got_any, best_quotes, used_date,
                   used_as_at, rows, status, lastRes, refCombined, fullCombined,
                   normCombined, dateLabels, parseVars>>

\* main, lines 216-230: the fetch succeeds and the sheet is parsed and merged
AttemptParses ==
    /\ pc = "market"
    /\ \E pdf \in FetchedSheets :
          LET res    == ParsedSheet(pdf, Wanted(symbols, combined))
              parsed == res[1]
              as_at  == res[2]
              comb   == IF parsed # EmptyMap THEN Merge(combined, parsed) ELSE combined
          IN  /\ got_any' = (got_any \/ parsed # EmptyMap)
              /\ used_as_at' = RememberLabel(parsed, as_at, used_as_at)
              /\ combined' = comb
              /\ IF Covered(comb, symbols)
                 THEN /\ best_quotes' = comb
                      /\ used_date' = dates[di]
                      /\ pc' = "enddate"
                      /\ mi' = mi
                 ELSE /\ NextMarket
                      /\ UNCHANGED <<best_quotes, used_date>>
              /\ lastRes' = res
              /\ attempts' = Append(attempts,
                     <<dates[di], mi, IF parsed = EmptyMap THEN "empty" ELSE "quotes">>)
              /\ refCombined' = FirstWins(refCombined,
                     ParsedSheet(pdf, Unresolved(symbols, refCombined))[1])
              /\ fullCombined' = FirstWins(fullCombined, ParsedSheet(pdf, symbols)[1])
              /\ normCombined' = FirstWins(normCombined,
                     ParsedSheet(pdf, NormWatchlist(symbols))[1])
              /\ dateLabels' = dateLabels \cup {as_at}
    /\ UNCHANGED <<watchlist_file, env_markets, env_lookback, symbols, market_ids,
                   dates, di, errors, rows, status, parseVars>>

\* main, lines 234-239 and 212-214: the end of a date's market loop
EndDate ==
    /\ pc = "enddate"
    /\ IF best_quotes # EmptyMap
       THEN /\ pc' = "output"
            /\ UNCHANGED <<best_quotes, used_date, di, mi, combined, got_any,
                           lastRes, refCombined, fullCombined, normCombined, dateLabels>>
       ELSE IF Adopts(got_any, combined)
       THEN /\ best_quotes' = combined
            /\ used_date' = dates[di]
            /\ pc' = "output"
            /\ UNCHANGED <<di, mi, combined, got_any, lastRes, refCombined,
                           fullCombined, normCombined, dateLabels>>
       ELSE IF di < Len(dates)
       THEN /\ di' = di + 1
            /\ mi' = 1
            /\ combined' = EmptyMap
            /\ got_any' = FALSE
            /\ lastRes' = <<EmptyMap, "">>
            /\ refCombined' = EmptyMap
            /\ fullCombined' = EmptyMap
            /\ normCombined' = EmptyMap
            /\ dateLabels' = {}
            /\ pc' = "market"
            /\ UNCHANGED <<best_quotes, used_date>>
       ELSE /\ pc' = "output"
            /\ UNCHANGED <<best_quotes, used_date, di, mi, combined, got_any,
                           lastRes, refCombined, fullCombined, normCombined, dateLabels>>
    /\ UNCHANGED <<watchlist_file, env_markets, env_lookback, symbols, market_ids,
                   dates, used_as_at, errors, rows, status, attempts, parseVars>>

\* main, lines 241-259: the records of prices.csv and the exit status
Output ==
    /\ pc = "output"
    /\ rows' = [i \in 1..Len(symbols) |->
                   Row(symbols[i], best_quotes, used_as_at, used_date)]
    /\ status' = <<0>>
    /\ pc' = "exit"
    /\ UNCHANGED <<watchlist_file, env_markets, env_lookback, symbols, market_ids,
                   dates, di, mi, combined, got_any, best_quotes, used_date,
                   used_as_at, errors, attempts, lastRes, refCombined, fullCombined,
                   normCombined, dateLabels, parseVars>>

Next ==
    \/ Start
    \/ AttemptFails
    \/ AttemptParses
    \/ EndDate
    \/ Output

Spec == Init /\ [][Next]_vars

\* main runs to its end: a fetch returns or raises (fetch_pdf has a timeout),
\* and every other step is straight-line code
FairSpec == Spec /\ WF_vars(Next)

(***************************************************************************)
(* parse_quotes line by line: the loop of lines 126-172 over the lines of  *)
(* one document, for every document whose lines are made of ParseTokens.   *)
(***************************************************************************)
ParseTokens == {"AAA", "bbb.", "Note", "+1,250.5", "0"}

\* the lines of a document, tokenised; <<>> is a blank line
ParseLines == UNION {[1..n -> ParseTokens] : n \in 0..MaxToks}

\* the text that precedes the quote lines
ParseHeaders == { <<>>, <<"March", "4,", "2024">> }

MainIdle ==
    /\ watchlist_file = <<>>
    /\ env_markets = <<>>
    /\ env_lookback = 0
    /\ pc = "idle"
    /\ symbols = <<>>
    /\ market_ids = <<>>
    /\ dates = <<>>
    /\ di = 0
    /\ mi = 0
    /\ combined = EmptyMap
    /\ got_any = FALSE
    /\ best_quotes = EmptyMap
    /\ used_date = ""
    /\ used_as_at = ""
    /\ errors = <<>>
    /\ rows = <<>>
    /\ status = <<>>
    /\ attempts = <<>>
    /\ lastRes = <<EmptyMap, "">>
    /\ refCombined = EmptyMap
    /\ fullCombined = EmptyMap
    /\ normCombined = EmptyMap
    /\ dateLabels = {}

\* parse_quotes, lines 114-123: want, out and the sheet date; main hands it
\* the watchlist, which is not empty there (lines 188-190)
ParseInit ==
    /\ MainIdle
    /\ p_pc = "loop"
    /\ p_want \in (SUBSET SymbolUniverse) \ {{}}
    /\ p_as_at \in {parse_sheet_date(<<h>>) : h \in ParseHeaders}
    /\ p_out = EmptyMap
    /\ p_line = <<>>
    /\ p_n = 0

\* lines 126-131: the next line of the text; a blank line is passed over
ReadLine ==
    /\ p_pc = "loop"
    /\ p_n < MaxLines
    /\ \E toks \in ParseLines :
          /\ p_line' = toks
          /\ p_pc' = IF Len(toks) = 0 THEN "loop" ELSE "line"
    /\ p_n' = p_n + 1
    /\ UNCHANGED <<p_want, p_as_at, p_out, mainVars>>

\* lines 133-172: the body of the loop on the line read
HandleLine ==
    /\ p_pc = "line"
    /\ p_out' = ParseLine(p_out, p_line, p_want, p_as_at)
    /\ p_pc' = IF LineBreaks(p_out, p_line, p_want) THEN "return" ELSE "loop"
    /\ p_line' = <<>>
    /\ UNCHANGED <<p_want, p_as_at, p_n, mainVars>>

\* line 174: the text has no more lines
EndOfText ==
    /\ p_pc = "loop"
    /\ p_pc' = "return"
    /\ UNCHANGED <<p_want, p_as_at, p_out, p_line, p_n, mainVars>>

ParseNext ==
    \/ ReadLine
    \/ HandleLine
    \/ EndOfText

ParseSpec == ParseInit /\ [][ParseNext]_vars

(***************************************************************************)
(* Properties of the orchestrator (specification Spec).                    *)
(***************************************************************************)
\* the last attempt made
LastAttempt == attempts[Len(attempts)]

\* the step makes an attempt
Attempted == attempts' # attempts

\* the search has ended with a result (Resolved) 
Resolved == best_quotes # EmptyMap

\* every watchlist symbol has a quote in comb
CoversWatchlist(comb) == Range(symbols) \subseteq DOMAIN comb

\* C1: the list of candidate dates, empty until main computes it, is strictly
\* newest first, and the dates are tried in that order; as soon as the
\* market loop of a date D ends with a non-empty combined mapping, that
\* mapping becomes the final result tagged with D, and no date older than
\* D is ever fetched (the result and the list of attempts stay as they are).
C1_NewestFirstFirstHitWins ==
    [][ /\ dates' # dates =>
              \A i, j \in DOMAIN dates' : i < j => StrLess(dates'[j], dates'[i])
        /\ Attempted =>
              /\ Len(attempts') = Len(attempts) + 1
              /\ \A i \in DOMAIN attempts :
                    /\ attempts'[i] = attempts[i]
                    /\ ~StrLess(attempts[i][1], attempts'[Len(attempts')][1])
        /\ (pc = "enddate" /\ combined # EmptyMap) =>
              /\ pc' = "output"
              /\ best_quotes' = combined
              /\ used_date' = dates[di]
              /\ used_date' = LastAttempt[1]
        /\ pc \in {"output", "exit"} =>
              /\ ~Attempted
              /\ best_quotes' = best_quotes
              /\ used_date' = used_date
              /\ pc' \in {"output", "exit"}
      ]_vars

\* C1 witness: D0 parsed without a hit, D1 gave quotes for a strict subset of
\* the watchlist and was adopted, and D2, in the window, was never fetched.
C1_Witness ==
    /\ pc = "exit"
    /\ Len(dates) = 3
    /\ used_date = dates[2]
    /\ best_quotes # EmptyMap
    /\ best_quotes = combined
    /\ ~CoversWatchlist(best_quotes)
    /\ \E i \in DOMAIN attempts : attempts[i][1] = dates[1] /\ attempts[i][3] = "empty"
    /\ \A i \in DOMAIN attempts : attempts[i][1] # dates[3]

\* C2: within one date an entry of the combined mapping is never modified
\* once written: a symbol a market's sheet resolves is entered with that
\* market's quote if no market before it resolved it, and keeps the earlier
\* market's quote otherwise, whatever the later sheet holds for it; the
\* final result holds the same quotes.
C2_MarketPrecedence ==
    [][ /\ di' = di =>
              \A k \in DOMAIN combined :
                  k \in DOMAIN combined' /\ combined'[k] = combined[k]
        /\ (Attempted /\ attempts'[Len(attempts')][3] # "raised") =>
              \A k \in DOMAIN lastRes'[1] :
                  /\ k \in DOMAIN combined'
                  /\ k \notin DOMAIN combined => combined'[k] = lastRes'[1][k]
        /\ best_quotes' # EmptyMap => best_quotes' = combined'
      ]_vars

\* C2 witness: the run ended with a quote for a symbol from an earlier market
\* although the sheet of the last market resolved the symbol to another price.
C2_Witness ==
    /\ pc = "exit"
    /\ \E k \in (DOMAIN lastRes[1]) \cap (DOMAIN combined) :
          /\ lastRes[1][k].last_price # combined[k].last_price
          /\ k \in DOMAIN best_quotes
          /\ best_quotes[k] = combined[k]

\* the attempts that raised, in order
FailedAttempts == SelectSeq(attempts, LAMBDA a : a[3] = "raised")

\* C3: an attempt that raises appends exactly one failure record labelled
\* with its date and market, leaves the combined mapping, the last-known
\* label and the final result unchanged, and the run goes on with the next
\* market, or with the next older date after the last market; the failure
\* list only grows, one record per failed attempt.
C3_FailureNeverFatal ==
    /\ [](/\ Len(errors) = Len(FailedAttempts)
          /\ \A i \in DOMAIN errors :
                /\ errors[i].date = FailedAttempts[i][1]
                /\ errors[i].market = market_ids[FailedAttempts[i][2]])
    /\ [][ /\ Len(errors') >= Len(errors)
           /\ SubSeq(errors', 1, Len(errors)) = errors
           /\ (Attempted /\ attempts'[Len(attempts')][3] = "raised") =>
                 /\ Len(errors') = Len(errors) + 1
                 /\ combined' = combined
                 /\ used_as_at' = used_as_at
                 /\ best_quotes' = best_quotes
                 /\ status' = <<>>
                 /\ IF mi < Len(market_ids)
                    THEN pc' = "market" /\ mi' = mi + 1 /\ di' = di
                    ELSE pc' = "enddate" /\ di' = di
           /\ (pc = "enddate" /\ combined = EmptyMap /\ di < Len(dates)) =>
                 pc' = "market" /\ mi' = 1 /\ di' = di + 1
         ]_vars

\* C3 witness: the first attempt of the run raised and the run still ended
\* with quotes and the success status.
C3_Witness ==
    /\ pc = "exit"
    /\ status = <<0>>
    /\ Len(attempts) >= 2
    /\ attempts[1][3] = "raised"
    /\ errors # <<>>
    /\ best_quotes # EmptyMap

\* the watchlist file holds no symbol: only blank lines and "#" comments
WatchlistEmpty ==
    \A i \in DOMAIN watchlist_file :
        \/ Strip(watchlist_file[i]) = ""
        \/ SubSeq(Strip(watchlist_file[i]), 1, 1) = "#"

\* the records of a finished run: the success status and exactly one record
\* per watchlist symbol, in the sorted order of the watchlist, whose
\* last_price is the price of the symbol's quote when it has one with a price
\* and empty otherwise, and whose source is the fixed tag
CompleteRecords ==
    /\ status = <<0>>
    /\ symbols # <<>>
    /\ Len(rows) = Len(symbols)
    /\ \A i, j \in DOMAIN symbols : i < j => StrLess(symbols[i], symbols[j])
    /\ \A i \in DOMAIN rows :
          /\ rows[i].symbol = symbols[i]
          /\ rows[i].source = "JSE_DAILY_PDF"
          /\ rows[i].last_price =
                IF symbols[i] \in DOMAIN best_quotes
                THEN best_quotes[symbols[i]].last_price
                ELSE <<>>

\* C4: with a non-empty watchlist the run reaches the output step whatever
\* the fetches and parses give (raise, no quote, some quotes, all quotes), and
\* it ends with the success status and exactly one record per watchlist
\* symbol, in sorted order, with the quote's price or an empty last_price and
\* the fixed source tag; nothing is written and no status set before.
C4_CompleteOutput ==
    /\ [](~WatchlistEmpty =>
             IF pc = "exit" THEN CompleteRecords ELSE rows = <<>> /\ status = <<>>)
    /\ (~WatchlistEmpty ~> (pc = "exit" /\ CompleteRecords))

\* C4 witness: a finished run with failures, a record with a price of zero
\* and a record without a price.
C4_Witness ==
    /\ pc = "exit"
    /\ status = <<0>>
    /\ errors # <<>>
    /\ \E i, j \in DOMAIN rows : rows[i].last_price = <<0>> /\ rows[j].last_price = <<>>

\* no attempt of the run returned a quote
NoHits == \A i \in DOMAIN attempts : attempts[i][3] # "quotes"

\* C5: when no attempt of the run yields a quote (each one raises or parses
\* to zero quotes) the final mapping is empty and every record has an empty
\* last_price and an empty as_at, and the fixed tag as its source.
C5_FullExhaustion ==
    (pc = "exit" /\ status = <<0>> /\ NoHits) =>
        /\ best_quotes = EmptyMap
        /\ Len(rows) = Len(symbols)
        /\ \A i \in DOMAIN rows :
              /\ rows[i].last_price = <<>>
              /\ rows[i].as_at = ""
              /\ rows[i].source = "JSE_DAILY_PDF"

\* C5 witness: an exhausted run in which an attempt raised and the last sheet
\* parsed carried a sheet date and no quote.
C5_Witness ==
    /\ pc = "exit"
    /\ status = <<0>>
    /\ NoHits
    /\ rows # <<>>
    /\ errors # <<>>
    /\ LastAttempt[3] = "empty"
    /\ lastRes[2] # ""

\* the as_at of the record of sym when the last fallback is dateTried
AsAtWith(sym, dateTried) ==
    IF sym \in DOMAIN best_quotes /\ best_quotes[sym].as_at # ""
    THEN best_quotes[sym].as_at
    ELSE IF used_as_at # "" THEN used_as_at
    ELSE dateTried

\* C6 as stated: the as_at of a record is the label of the symbol's quote if
\* it has one, else the last-known label if there is one, else the date that
\* was tried: the adopted date after Resolved, the most recently tried date
\* after Exhausted.
C6_AsAtFallsBackToTriedDate ==
    (pc = "exit" /\ status = <<0>>) =>
        \A i \in DOMAIN rows :
            rows[i].as_at =
                AsAtWith(symbols[i], IF attempts = <<>> THEN "" ELSE LastAttempt[1])

\* C6 amended: the as_at of a record is the label of the symbol's quote if it
\* has one, else the last-known label if there is one, else the adopted date
\* when the search ended Resolved and the empty string when it ended
\* Exhausted (no date already tried is used).
C6_AsAtFallsBackToAdoptedDate ==
    (pc = "exit" /\ status = <<0>>) =>
        /\ Len(rows) = Len(symbols)
        /\ \A i \in DOMAIN rows :
              rows[i].as_at =
                  AsAtWith(symbols[i], IF Resolved THEN LastAttempt[1] ELSE "")

\* C6 witness: a Resolved run without any sheet date in which a symbol stayed
\* unresolved, so that its record carries the adopted date.
C6_Witness ==
    /\ pc = "exit"
    /\ Resolved
    /\ used_as_at = ""
    /\ \E i \in DOMAIN rows :
          /\ symbols[i] \notin DOMAIN best_quotes
          /\ rows[i].as_at = LastAttempt[1]
          /\ rows[i].as_at # ""

\* C8: the run ends with status 2 exactly when the watchlist is empty, and
\* then no fetch was attempted and no record written; with a non-empty
\* watchlist the status is never 2.
C8_EmptyWatchlistOnlyFatal ==
    /\ WatchlistEmpty =>
          /\ pc \in {"start", "exit"}
          /\ attempts = <<>>
          /\ rows = <<>>
          /\ pc = "exit" => status = <<2>>
    /\ ~WatchlistEmpty => status # <<2>>

\* C8 witness: a watchlist file of comments and blank lines ended the run
\* with status 2.
C8_Witness ==
    /\ pc = "exit"
    /\ status = <<2>>
    /\ watchlist_file # <<>>

\* C9 as stated: after every market attempt the combined mapping equals the
\* one of an orchestrator that parses each sheet against the watchlist
\* symbols still unresolved.
C9_ParsesUnresolvedOnly == combined = refCombined

\* C9 amended: each sheet is parsed against the whole watchlist, resolved
\* symbols included, and only the symbols without a quote are merged: after
\* every market attempt the combined mapping equals the one of an
\* orchestrator that parses each sheet against the whole watchlist and keeps
\* the first quote of a symbol.
C9_ParsesWholeWatchlist == combined = fullCombined

\* C9 witness: a run that ended with a combined mapping other than the one
\* parsing against the unresolved symbols gives.
C9_Witness ==
    /\ pc = "exit"
    /\ Len(attempts) >= 2
    /\ combined # refCombined
    /\ combined = fullCombined
    /\ best_quotes = combined

\* C10: once the combined mapping has a quote for every watchlist symbol the
\* market loop has stopped, the mapping is the final result tagged with the
\* date, and the attempt that completed it stays the last one (no
\* lower-priority market, no older date); a market is about to be fetched
\* only while the combined mapping does not cover the watchlist.
C10_FullCoverageShortCircuit ==
    /\ pc = "market" => ~CoversWatchlist(combined)
    /\ (pc # "start" /\ symbols # <<>> /\ CoversWatchlist(combined)) =>
          /\ pc \in {"enddate", "output", "exit"}
          /\ best_quotes = combined
          /\ used_date = dates[di]
          /\ LastAttempt = <<dates[di], mi, "quotes">>

\* C10 witness: the first market of the first date covered the watchlist and
\* the run ended without fetching the second market or the older dates.
C10_Witness ==
    /\ pc = "exit"
    /\ symbols # <<>>
    /\ CoversWatchlist(combined)
    /\ Len(market_ids) = 2
    /\ Len(dates) >= 2
    /\ Len(attempts) = 1

\* the step is a successful fetch-and-parse
Parsed == Attempted /\ attempts'[Len(attempts')][3] # "raised"

\* the step is a successful fetch-and-parse that returned one quote or more
ParsedQuotes == Attempted /\ attempts'[Len(attempts')][3] = "quotes"

\* C11 as stated: after every successful fetch-and-parse that returns a
\* non-empty sheet-date label, whatever the number of quotes it returns, the
\* last-known label is that label; no other step changes the last-known label.
C11_LabelOfEveryParse ==
    [][ IF Parsed /\ lastRes'[2] # ""
        THEN used_as_at' = lastRes'[2]
        ELSE used_as_at' = used_as_at
      ]_vars

\* C11 amended: after every successful fetch-and-parse that returns one quote
\* or more and a non-empty sheet-date label, the last-known label is that
\* label; no other step changes it, a parse that returns zero quotes included.
C11_LabelOfEveryHit ==
    [][ IF ParsedQuotes /\ lastRes'[2] # ""
        THEN used_as_at' = lastRes'[2]
        ELSE used_as_at' = used_as_at
      ]_vars

\* C11 witness: the sheets of the adopted date returned two different labels,
\* the last one with quotes, and the last-known label is the later one while
\* a quote of the result still carries the earlier one.
C11_Witness ==
    /\ pc = "exit"
    /\ Cardinality(dateLabels \ {""}) = 2
    /\ LastAttempt[3] = "quotes"
    /\ used_as_at = lastRes[2]
    /\ \E k \in DOMAIN best_quotes : best_quotes[k].as_at \notin {"", used_as_at}

\* position of a date in the list of candidate dates
DateIndex(d) == CHOOSE i \in DOMAIN dates : dates[i] = d

\* the search of a run with a watchlist: its candidate dates are today minus
\* 0, 1, ..., lookback - 1 days (none for a lookback of 0 or less), its
\* attempts go by date, newest first, and then by position in the market
\* list, their number is at most lookback x length of the market list, and
\* once the search is over its result is empty exactly when no attempt
\* returned a quote, that is when every tried date ended with an empty
\* combined mapping
SearchInOrder ==
    (pc # "start" /\ symbols # <<>>) =>
        /\ Len(dates) = (IF env_lookback > 0 THEN env_lookback ELSE 0)
        /\ \A d \in DOMAIN dates : dates[d] = Calendar[d]
        /\ \A i, j \in DOMAIN attempts :
              i < j =>
                 \/ DateIndex(attempts[i][1]) < DateIndex(attempts[j][1])
                 \/ /\ attempts[i][1] = attempts[j][1]
                    /\ attempts[i][2] < attempts[j][2]
        /\ \A i \in DOMAIN attempts :
              /\ attempts[i][1] \in Range(dates)
              /\ attempts[i][2] \in DOMAIN market_ids
        /\ Len(attempts) <= Len(dates) * Len(market_ids)
        /\ pc \in {"output", "exit"} =>
              /\ best_quotes = EmptyMap <=> NoHits
              /\ best_quotes = EmptyMap => combined = EmptyMap

\* no date is tried twice with the same market identifier
MarketTriedOnce ==
    \A i, j \in DOMAIN attempts :
        (/\ attempts[i][1] = attempts[j][1]
         /\ market_ids[attempts[i][2]] = market_ids[attempts[j][2]]) => i = j

\* C15 as stated: the search always ends, Resolved or Exhausted; the dates
\* are today minus 0 .. lookback - 1 days, the attempts go newest date first
\* and then by market priority, no (date, market) pair is attempted more than
\* once, at most lookback x |markets| attempts are made, and the end state is
\* Exhausted exactly when every tried date ended with an empty mapping.
C15_EachMarketOncePerDate ==
    /\ [](SearchInOrder /\ MarketTriedOnce)
    /\ <>(pc = "exit")

\* C15 amended: as stated, except that what is attempted at most once per
\* date is a position of the market list: a market identifier listed twice
\* in JSE_MARKETS is fetched twice for each date, and the bound on the
\* attempts is lookback x the length of the market list.
C15_EachListedMarketOncePerDate ==
    /\ []SearchInOrder
    /\ <>(pc = "exit")

\* C15 witness: an Exhausted run over two dates or more with the market list
\* 31, 31 that made every attempt the window allows.
C15_Witness ==
    /\ pc = "exit"
    /\ status = <<0>>
    /\ best_quotes = EmptyMap
    /\ Len(dates) >= 2
    /\ market_ids = <<31, 31>>
    /\ Len(attempts) = Len(dates) * Len(market_ids)

\* C16: symbols are matched by their normalized form: two watchlist entries
\* with the same normalized form are one watchlist symbol, a sheet token
\* resolves the watchlist entry whose normalized form is the token's (what a
\* watchlist of normalized symbols resolves on the sheets of the date, the
\* watchlist resolves), and a date whose sheets have a quote line for every
\* normalized watchlist symbol reaches full coverage.
C16_MatchedByNormalizedForm ==
    /\ \A i, j \in DOMAIN symbols :
          norm_sym(symbols[i]) = norm_sym(symbols[j]) => i = j
    /\ \A k \in DOMAIN normCombined :
          \E x \in DOMAIN combined : norm_sym(x) = k
    /\ (symbols # <<>> /\ Range(NormWatchlist(symbols)) \subseteq DOMAIN normCombined) =>
          /\ Cardinality(DOMAIN combined) = Len(symbols)
          /\ pc \in {"enddate", "output", "exit"}
          /\ best_quotes = combined

\* C17: the fallback stamp never comes from a discarded date: a non-empty
\* last-known label was returned by a sheet of the date being tried, and that
\* date has a quote (it will not be judged empty); while the combined mapping
\* of the date is empty, and so after every date judged empty, the label is
\* empty; at the output step a non-empty label means that the search ended
\* Resolved and that a sheet fetched for the adopted date returned the label.
C17_StampFromAdoptedDate ==
    /\ used_as_at # "" => (used_as_at \in dateLabels /\ combined # EmptyMap)
    /\ combined = EmptyMap => used_as_at = ""
    /\ (pc = "market" /\ mi = 1) => (used_as_at = "" /\ dateLabels = {})
    /\ (pc \in {"output", "exit"} /\ used_as_at # "") =>
          /\ Resolved
          /\ best_quotes = combined
          /\ used_date = dates[di]
          /\ \A i \in DOMAIN attempts :
                attempts[i][3] = "quotes" => attempts[i][1] = used_date

\* C17 witness: the first date was discarded, the second was adopted with a
\* symbol left unresolved, whose record is stamped with the last-known label,
\* returned by a sheet of the second date.
C17_Witness ==
    /\ pc = "exit"
    /\ di = 2
    /\ used_as_at # ""
    /\ used_as_at \in dateLabels
    /\ \E i \in DOMAIN rows :
          /\ symbols[i] \notin DOMAIN best_quotes
          /\ rows[i].as_at = used_as_at

\* C18: the keys of the per-date combined mapping are watchlist symbols and
\* every quote is stored under its own symbol, so that the size test of the
\* coverage check (as many entries as watchlist symbols) is true exactly when
\* every watchlist symbol has an entry; the final result is empty or is the
\* combined mapping of the adopted date; and got_any is true exactly when
\* the combined mapping is not empty.
C18_CombinedWithinWatchlist ==
    /\ DOMAIN combined \subseteq Range(symbols)
    /\ \A k \in DOMAIN combined : combined[k].symbol = k
    /\ (Cardinality(DOMAIN combined) = Len(symbols)) <=> CoversWatchlist(combined)
    /\ \/ best_quotes = EmptyMap
       \/ best_quotes = combined /\ used_date = dates[di]
    /\ got_any <=> (combined # EmptyMap)

\* C18 witness: a date was adopted at its end with quotes for some of the
\* watchlist symbols only, merged from two sheets or more.
C18_Witness ==
    /\ pc = "exit"
    /\ got_any
    /\ best_quotes = combined
    /\ combined # EmptyMap
    /\ Cardinality(DOMAIN combined) < Len(symbols)
    /\ Cardinality({i \in DOMAIN attempts : attempts[i][3] = "quotes"}) >= 2

\* the watchlists main can hand to parse_quotes
Watchlists == {Range(read_watchlist(f)) : f \in WatchlistFiles} \ {{}}

\* in every sheet, a symbol recorded without a price by the lines read so far
\* is without a price in what parse_quotes returns, whatever the later lines
UnpricedKeptInPass ==
    \A text \in Sheets : \A want \in Watchlists : \A n \in 1..Len(text) :
        LET sofar == parse_quotes(SubSeq(text, 1, n), Sorted(want))[1]
            final == parse_quotes(text, Sorted(want))[1]
        IN  \A k \in DOMAIN sofar :
                sofar[k].last_price = <<>> =>
                    (k \in DOMAIN final /\ final[k].last_price = <<>>)

\* the symbols with a quote without price in comb
Unpriced(comb) == {k \in DOMAIN comb : comb[k].last_price = <<>>}

\* C19: a quote without a price is a hit like any other: no later line of
\* the sheet and no later market of the date replaces it, even by a quote
\* with a price; it counts for full coverage; and a date whose combined
\* mapping holds only such quotes is adopted as the result, after which no
\* older date is fetched.
C19_UnpricedQuoteIsAHit ==
    /\ []UnpricedKeptInPass
    /\ [](CoversWatchlist(combined) /\ symbols # <<>> =>
             (pc \in {"enddate", "output", "exit"} /\ best_quotes = combined))
    /\ [][ /\ di' = di =>
                \A k \in Unpriced(combined) :
                    k \in DOMAIN combined' /\ combined'[k] = combined[k]
           /\ (pc = "enddate" /\ combined # EmptyMap /\ Unpriced(combined) = DOMAIN combined) =>
                 /\ pc' = "output"
                 /\ best_quotes' = combined
                 /\ used_date' = dates[di]
           /\ (pc \in {"output", "exit"} /\ Unpriced(best_quotes) # {}) =>
                 /\ ~Attempted
                 /\ di' = di
                 /\ Unpriced(best_quotes') = Unpriced(best_quotes)
         ]_vars

\* C19 witness: the newest of several dates was adopted with nothing but a
\* quote without price, although the sheet of the second market held a price
\* for the symbol, and the older dates were not fetched.
C19_Witness ==
    /\ pc = "exit"
    /\ Len(dates) >= 2
    /\ di = 1
    /\ best_quotes # EmptyMap
    /\ Unpriced(best_quotes) = DOMAIN best_quotes
    /\ Len(attempts) = 2
    /\ \E k \in (DOMAIN lastRes[1]) \cap (DOMAIN best_quotes) :
          lastRes[1][k].last_price # <<>>

(***************************************************************************)
(* Properties of parse_quotes (specification ParseSpec).                   *)
(***************************************************************************)
\* the positions after the anchor that hold a numeric token
NumPositions(toks, idx0) == {i \in (idx0 + 1)..Len(toks) : NUM_RE(toks[i])}

\* the n-th smallest member of a set of positions that has n or more
Nth(ps, n) == CHOOSE i \in ps : Cardinality({j \in ps : j < i}) = n - 1

\* the price the line stands for: the second numeric token after the anchor
\* if there are two or more, the first if there is one, none otherwise
ClaimedPrice(toks, idx0) ==
    LET ps == NumPositions(toks, idx0)
    IN  IF Cardinality(ps) >= 2 THEN ToFloat(DropCommas(toks[Nth(ps, 2)]))
        ELSE IF Cardinality(ps) = 1 THEN ToFloat(DropCommas(toks[Nth(ps, 1)]))
        ELSE <<>>

\* C7: the quote recorded for an anchored line has as last_price the second
\* numeric token found after the anchor up to the end of the line if there
\* are two or more, the first if there is exactly one, and none if there is
\* none; tokens that are not numeric do not end the scan, and a closing price
\* of zero is recorded as zero.
C7_ClosingPricePreferred ==
    [][ (p_pc = "line" /\ p_out' # p_out) =>
            LET idx0 == Anchor(p_line, p_want, p_out)
                sym0 == norm_sym(p_line[idx0])
            IN  /\ idx0 # 0
                /\ DOMAIN p_out' = (DOMAIN p_out) \cup {sym0}
                /\ sym0 \notin DOMAIN p_out
                /\ p_out'[sym0].last_price = ClaimedPrice(p_line, idx0)
                /\ \A k \in DOMAIN p_out : p_out'[k] = p_out[k]
      ]_vars

\* C7 witness: the first line of a document was anchored on AAA and recorded
\* with a price of zero.
C7_Witness ==
    /\ p_pc = "return"
    /\ p_n = 1
    /\ "AAA" \in DOMAIN p_out
    /\ p_out["AAA"].last_price = <<0>>

\* C12: within one pass every key of the running mapping is in wanted and
\* holds the quote of that symbol (a symbol has one entry), and a quote once
\* recorded is never changed by a later line of the pass, whether the line
\* starts with the symbol or contains it.
C12_ResolvedOnceInPass ==
    /\ [](/\ DOMAIN p_out \subseteq p_want
          /\ \A k \in DOMAIN p_out : p_out[k].symbol = k)
    /\ [][ \A k \in DOMAIN p_out :
               k \in DOMAIN p_out' /\ p_out'[k] = p_out[k] ]_vars

\* C12 witness: the second line of the pass starts with a symbol recorded from
\* the first line and stands for another price.
C12_Witness ==
    /\ p_pc = "line"
    /\ p_n = 2
    /\ norm_sym(p_line[1]) \in DOMAIN p_out
    /\ ClaimedPrice(p_line, 1) # p_out[norm_sym(p_line[1])].last_price

\* the token at position i of the line names a wanted symbol not yet resolved
Unresolved_at(i) ==
    /\ norm_sym(p_line[i]) \in p_want
    /\ norm_sym(p_line[i]) \notin DOMAIN p_out

\* the step records the quote of the line for the token at position i only
RecordsAt(i) ==
    /\ DOMAIN p_out' = (DOMAIN p_out) \cup {norm_sym(p_line[i])}
    /\ p_out'[norm_sym(p_line[i])] =
          Quote(norm_sym(p_line[i]), ClaimedPrice(p_line, i), p_as_at)
    /\ \A k \in DOMAIN p_out : p_out'[k] = p_out[k]

\* C13: the anchor of a non-blank line is its first token if that names a
\* wanted symbol not yet resolved; otherwise the leftmost token at the second
\* position or later that does (also when the first token names a wanted
\* symbol already resolved); without such a token the line is skipped and
\* the mapping unchanged.  A line records at most one quote.
C13_AnchorSelection ==
    [][ p_pc = "line" =>
          /\ Cardinality(DOMAIN p_out') <= Cardinality(DOMAIN p_out) + 1
          /\ IF Unresolved_at(1) THEN RecordsAt(1)
             ELSE IF \E i \in 2..Len(p_line) : Unresolved_at(i)
             THEN \E i \in 2..Len(p_line) :
                     /\ Unresolved_at(i)
                     /\ \A j \in 2..(i - 1) : ~Unresolved_at(j)
                     /\ RecordsAt(i)
             ELSE p_out' = p_out
      ]_vars

\* C13 witness: a line whose first token names a wanted symbol already
\* resolved and whose third token is the first to name an unresolved one.
C13_Witness ==
    /\ p_pc = "line"
    /\ norm_sym(p_line[1]) \in p_want \cap DOMAIN p_out
    /\ Anchor(p_line, p_want, p_out) = 3

\* C14: the loop is left early exactly when every symbol of wanted is
\* resolved, and then a parser that goes on scanning returns the same: no
\* line that could follow changes the mapping, and the label was fixed
\* before the loop.
C14_EarlyExitOnlyOptimisation ==
    /\ [][ /\ p_pc = "line" => (p_pc' = "return" <=> DOMAIN p_out' = p_want)
           /\ p_as_at' = p_as_at
           /\ p_want' = p_want ]_vars
    /\ [](DOMAIN p_out = p_want =>
             /\ p_pc = "return"
             /\ \A toks \in ParseLines :
                   ParseLine(p_out, toks, p_want, p_as_at) = p_out)

\* C14 witness: the first line resolved the only wanted symbol and the loop
\* was left with lines of the document still unread.
C14_Witness ==
    /\ p_pc = "return"
    /\ p_n = 1
    /\ p_n < MaxLines
    /\ p_want # {}
    /\ DOMAIN p_out = p_want

====
